---- MODULE Spec2Model ----
(***************************************************************************)
(* The erasure-coded container of sage (src/main.rs): protect splits the   *)
(* encrypted payload into DATA_SHARDS equal shards, adds PARITY_SHARDS     *)
(* Reed-Solomon parity shards and writes them after an 8-byte length;      *)
(* recover re-derives the shard length from the file size, rebuilds the    *)
(* missing shards and strips the padding.  The archive, compression and    *)
(* encryption stages around it are opaque byte transforms and are not      *)
(* modelled: encrypted_data is the payload handed to the sharding code and *)
(* reconstructed_data the payload handed on to decryption.                 *)
(***************************************************************************)
EXTENDS Integers, Sequences, FiniteSets, TLC

VARIABLES
    pc,                 \* position in protect / recover
    err,                \* which failure ended the run ("none" while running)
    rs_error,           \* the reed-solomon-erasure error kind behind err
    encrypted_data,     \* protect: the payload to shard
    master_shards,      \* protect: the data shards
    parity_shards,      \* protect: the parity shards
    out_file,           \* the bytes of the container file on disk
    original_len,       \* recover: the length read from the header
    shards,             \* recover: Vec<Option<Vec<u8>>>
    reconstructed_data, \* recover: the assembled payload
    origin,             \* "protect": out_file was written by protect; "foreign": it was not
    cut,                \* bytes removed from the end of out_file since it was written
    absent              \* slot positions that were None when reconstruction started

vars == <<pc, err, rs_error, encrypted_data, master_shards, parity_shards, out_file,
          original_len, shards, reconstructed_data, origin, cut, absent>>

(***************************************************************************)
(* Program constants (main.rs:11-13).                                      *)
(***************************************************************************)
DATA_SHARDS == 10
PARITY_SHARDS == 4
TOTAL_SHARDS == DATA_SHARDS + PARITY_SHARDS

(***************************************************************************)
(* Bounds of the model.                                                    *)
(***************************************************************************)
\* payloads given to protect have every length 0..MaxLen (shard lengths 0..4)
MaxLen == 40
\* payload byte patterns 0..MaxSeed
MaxSeed == 1
\* files not written by protect have 0..MaxBody bytes after the header
MaxBody == 15
\* the payload length of the erasure experiments (two bytes per shard, one padded)
ErasureLen == 19

Min(a, b) == IF a < b THEN a ELSE b

\* A function over 1..n as an explicit tuple.
Vec(f) == f \o <<>>

(***************************************************************************)
(* GF(2^8) as reed_solomon_erasure::galois_8 implements it: field          *)
(* polynomial 0x11D, generator 2, multiplication through log/exp tables.   *)
(***************************************************************************)
\* EXP_TABLE[i + 1] = 2^i for i in 0..254
EXP_TABLE == <<
      1,   2,   4,   8,  16,  32,  64, 128,  29,  58, 116, 232, 205, 135,  19,  38,
     76, 152,  45,  90, 180, 117, 234, 201, 143,   3,   6,  12,  24,  48,  96, 192,
    157,  39,  78, 156,  37,  74, 148,  53, 106, 212, 181, 119, 238, 193, 159,  35,
     70, 140,   5,  10,  20,  40,  80, 160,  93, 186, 105, 210, 185, 111, 222, 161,
     95, 190,  97, 194, 153,  47,  94, 188, 101, 202, 137,  15,  30,  60, 120, 240,
    253, 231, 211, 187, 107, 214, 177, 127, 254, 225, 223, 163,  91, 182, 113, 226,
    217, 175,  67, 134,  17,  34,  68, 136,  13,  26,  52, 104, 208, 189, 103, 206,
    129,  31,  62, 124, 248, 237, 199, 147,  59, 118, 236, 197, 151,  51, 102, 204,
    133,  23,  46,  92, 184, 109, 218, 169,  79, 158,  33,  66, 132,  21,  42,  84,
    168,  77, 154,  41,  82, 164,  85, 170,  73, 146,  57, 114, 228, 213, 183, 115,
    230, 209, 191,  99, 198, 145,  63, 126, 252, 229, 215, 179, 123, 246, 241, 255,
    227, 219, 171,  75, 150,  49,  98, 196, 149,  55, 110, 220, 165,  87, 174,  65,
    130,  25,  50, 100, 200, 141,   7,  14,  28,  56, 112, 224, 221, 167,  83, 166,
     81, 162,  89, 178, 121, 242, 249, 239, 195, 155,  43,  86, 172,  69, 138,   9,
     18,  36,  72, 144,  61, 122, 244, 245, 247, 243, 251, 235, 203, 139,  11,  22,
     44,  88, 176, 125, 250, 233, 207, 131,  27,  54, 108, 216, 173,  71, 142 >>
\* LOG_TABLE[a] = log_2 a for a in 1..255
LOG_TABLE == <<
      0,   1,  25,   2,  50,  26, 198,   3, 223,  51, 238,  27, 104, 199,  75,   4,
    100, 224,  14,  52, 141, 239, 129,  28, 193, 105, 248, 200,   8,  76, 113,   5,
    138, 101,  47, 225,  36,  15,  33,  53, 147, 142, 218, 240,  18, 130,  69,  29,
    181, 194, 125, 106,  39, 249, 185, 201, 154,   9, 120,  77, 228, 114, 166,   6,
    191, 139,  98, 102, 221,  48, 253, 226, 152,  37, 179,  16, 145,  34, 136,  54,
    208, 148, 206, 143, 150, 219, 189, 241, 210,  19,  92, 131,  56,  70,  64,  30,
     66, 182, 163, 195,  72, 126, 110, 107,  58,  40,  84, 250, 133, 186,  61, 202,
     94, 155, 159,  10,  21, 121,  43,  78, 212, 229, 172, 115, 243, 167,  87,   7,
    112, 192, 247, 140, 128,  99,  13, 103,  74, 222, 237,  49, 197, 254,  24, 227,
    165, 153, 119,  38, 184, 180, 124,  17,  68, 146, 217,  35,  32, 137,  46,  55,
     63, 209,  91, 149, 188, 207, 205, 144, 135, 151, 178, 220, 252, 190,  97, 242,
     86, 211, 171,  20,  42,  93, 158, 132,  60,  57,  83,  71, 109,  65, 162,  31,
     45,  67, 216, 183, 123, 164, 118, 196,  23,  73, 236, 127,  12, 111, 246, 108,
    161,  59,  82,  41, 157,  85, 170, 251,  96, 134, 177, 187, 204,  62,  90, 203,
     89,  95, 176, 156, 169, 160,  81,  11, 245,  22, 235, 122, 117,  44, 215,  79,
    174, 213, 233, 230, 231, 173, 232, 116, 214, 244, 234, 168,  80,  88, 175 >>

\* addition in the field: bitwise exclusive or
RECURSIVE add(_, _)
add(a, b) ==
    IF a = 0 THEN b
    ELSE IF b = 0 THEN a
    ELSE ((a + b) % 2) + 2 * add(a \div 2, b \div 2)

mul(a, b) ==
    IF a = 0 \/ b = 0 THEN 0
    ELSE EXP_TABLE[((LOG_TABLE[a] + LOG_TABLE[b]) % 255) + 1]

div(a, b) ==
    IF a = 0 THEN 0
    ELSE EXP_TABLE[((LOG_TABLE[a] + 255 - LOG_TABLE[b]) % 255) + 1]

exp(a, n) ==
    IF n = 0 THEN 1
    ELSE IF a = 0 THEN 0
    ELSE EXP_TABLE[((LOG_TABLE[a] * n) % 255) + 1]

(***************************************************************************)
(* Matrices over the field (reed_solomon_erasure::matrix).                 *)
(***************************************************************************)
vandermonde(rows, cols) ==
    Vec([r \in 1..rows |-> Vec([c \in 1..cols |-> exp(r - 1, c - 1)])])

RECURSIVE DotColumn(_, _, _, _)
\* sum over k' in 1..k of row[k'] * m[k'][c]
DotColumn(row, m, c, k) ==
    IF k = 0 THEN 0 ELSE add(mul(row[k], m[k][c]), DotColumn(row, m, c, k - 1))

multiply(a, b) ==
    Vec([r \in 1..Len(a) |-> Vec([c \in 1..Len(b[1]) |-> DotColumn(a[r], b, c, Len(b))])])

\* One step of Gauss-Jordan elimination on column r: bring a row with a
\* non-zero entry up, scale it to 1, clear the column in every other row.
PivotRow(w, r) == CHOOSE k \in r..Len(w) : w[k][r] # 0 /\ \A j \in r..(k - 1) : w[j][r] = 0
ScaleRow(row, f) == Vec([c \in 1..Len(row) |-> mul(row[c], f)])
AddScaled(row, piv, f) == Vec([c \in 1..Len(row) |-> add(row[c], mul(f, piv[c]))])
Eliminate(w, r) ==
    LET k == PivotRow(w, r)
        s == [w EXCEPT ![r] = w[k], ![k] = w[r]]
        p == ScaleRow(s[r], div(1, s[r][r]))
    IN Vec([i \in 1..Len(s) |->
            IF i = r THEN p
            ELSE IF s[i][r] = 0 THEN s[i]
            ELSE AddScaled(s[i], p, s[i][r])])

RECURSIVE gaussian_elim(_, _)
gaussian_elim(w, r) == IF r > Len(w) THEN w ELSE gaussian_elim(Eliminate(w, r), r + 1)

\* Matrix::invert: eliminate on [m | I] and keep the right half.
invert(m) ==
    LET n == Len(m)
        aug == Vec([r \in 1..n |-> Vec([c \in 1..(2 * n) |->
                   IF c <= n THEN m[r][c] ELSE IF c - n = r THEN 1 ELSE 0])])
        g == gaussian_elim(aug, 1)
    IN Vec([r \in 1..n |-> SubSeq(g[r], n + 1, 2 * n)])

\* ReedSolomon::new(DATA_SHARDS, PARITY_SHARDS): the systematic coding matrix,
\* a Vandermonde matrix times the inverse of its top square.
build_matrix ==
    LET v == vandermonde(TOTAL_SHARDS, DATA_SHARDS)
    IN multiply(v, invert(SubSeq(v, 1, DATA_SHARDS)))

(***************************************************************************)
(* Option<Vec<u8>> slots.                                                  *)
(***************************************************************************)
Some(v) == [present |-> TRUE, bytes |-> v]
None == [present |-> FALSE, bytes |-> <<>>]

(***************************************************************************)
(* ReedSolomon::encode (main.rs:183) and ReedSolomon::reconstruct          *)
(* (main.rs:242) of reed-solomon-erasure, on whole shards.                 *)
(***************************************************************************)
\* each output shard is one matrix row applied to the input shards, byte by byte
code_some_slices(matrix_rows, inputs) == multiply(matrix_rows, inputs)

ParityRows == SubSeq(build_matrix, DATA_SHARDS + 1, TOTAL_SHARDS)

\* encode(all_shards): the first DATA_SHARDS shards are read, the others are
\* overwritten.  An empty first shard or unequal lengths are refused.
rs_encode(all_shards) ==
    IF Len(all_shards[1]) = 0
    THEN [error |-> "EmptyShard", shards |-> all_shards]
    ELSE IF \E i \in 1..Len(all_shards) : Len(all_shards[i]) # Len(all_shards[1])
    THEN [error |-> "IncorrectShardSize", shards |-> all_shards]
    ELSE [error |-> "none",
          shards |-> SubSeq(all_shards, 1, DATA_SHARDS)
                     \o code_some_slices(ParityRows, SubSeq(all_shards, 1, DATA_SHARDS))]

RECURSIVE FirstPresent(_, _, _)
\* the first n present positions of slots, from position i on, in order
FirstPresent(slots, i, n) ==
    IF n = 0 \/ i > Len(slots) THEN <<>>
    ELSE IF slots[i].present THEN <<i>> \o FirstPresent(slots, i + 1, n - 1)
    ELSE FirstPresent(slots, i + 1, n)

\* the length check of reconstruct's first loop: the first present shard, in
\* index order, that is empty or differs in length from the one before it
LengthError(slots) ==
    LET P == {i \in 1..Len(slots) : slots[i].present}
        bad == {i \in P : \/ Len(slots[i].bytes) = 0
                          \/ \E j \in P : j < i /\ Len(slots[j].bytes) # Len(slots[i].bytes)}
        first == CHOOSE i \in bad : \A j \in bad : i <= j
    IN IF bad = {} THEN "none"
       ELSE IF Len(slots[first].bytes) = 0 THEN "EmptyShard"
       ELSE "IncorrectShardSize"

\* SubMatrixRows with the bug of taking the first DATA_SHARDS rows whatever is present
SubMatrixRows_FirstRows(slots) == SubSeq(build_matrix, 1, DATA_SHARDS)

\* the rows of the coding matrix of the first DATA_SHARDS present shards
SubMatrixRows(slots) ==
    LET valid == FirstPresent(slots, 1, DATA_SHARDS)
    IN Vec([k \in 1..DATA_SHARDS |-> build_matrix[valid[k]]])

\* the data shards, the missing ones computed from the first DATA_SHARDS present shards
RebuildData(slots) ==
    LET valid == FirstPresent(slots, 1, DATA_SHARDS)
        sub_shards == Vec([k \in 1..DATA_SHARDS |-> slots[valid[k]].bytes])
        missing == {i \in 1..DATA_SHARDS : ~slots[i].present}
        data_decode_matrix == invert(SubMatrixRows(slots))
        rebuilt == code_some_slices(data_decode_matrix, sub_shards)
    IN IF missing = {}
       THEN Vec([i \in 1..DATA_SHARDS |-> slots[i].bytes])
       ELSE Vec([i \in 1..DATA_SHARDS |->
                 IF slots[i].present THEN slots[i].bytes ELSE rebuilt[i]])

rs_reconstruct(slots) ==
    LET present == {i \in 1..Len(slots) : slots[i].present}
        data == RebuildData(slots)
        parity == code_some_slices(ParityRows, data)
    IN IF LengthError(slots) # "none"
       THEN [error |-> LengthError(slots), shards |-> slots]
       ELSE IF Cardinality(present) = TOTAL_SHARDS
       THEN [error |-> "none", shards |-> slots]
       ELSE IF Cardinality(present) < DATA_SHARDS
       THEN [error |-> "TooFewShardsPresent", shards |-> slots]
       ELSE [error |-> "none",
             shards |-> Vec([i \in 1..TOTAL_SHARDS |->
                 IF slots[i].present THEN slots[i]
                 ELSE IF i <= DATA_SHARDS THEN Some(data[i])
                 ELSE Some(parity[i - DATA_SHARDS])])]

(***************************************************************************)
(* Slices, vectors and integers as the standard library treats them.       *)
(***************************************************************************)
\* usize::div_ceil
div_ceil(a, b) == (a + b - 1) \div b

\* slice::chunks(n) for n > 0 (it panics for n = 0: callers decide that case)
chunks(s, n) ==
    Vec([i \in 1..div_ceil(Len(s), n) |-> SubSeq(s, (i - 1) * n + 1, Min(i * n, Len(s)))])

\* Vec::resize(n, 0)
resize(v, n) == Vec([i \in 1..n |-> IF i <= Len(v) THEN v[i] ELSE 0])

\* Vec::truncate(n)
truncate(v, n) == SubSeq(v, 1, Min(n, Len(v)))

RECURSIVE Flatten(_)
\* the shards written, or extended, one after the other
Flatten(ss) == IF Len(ss) = 0 THEN <<>> ELSE ss[1] \o Flatten(Tail(ss))

\* u64::to_le_bytes; the lengths of the model are below 2^32, so the four
\* high bytes are 0
to_le_bytes(n) ==
    <<n % 256, (n \div 256) % 256, (n \div 65536) % 256, (n \div 16777216) % 256, 0, 0, 0, 0>>

RECURSIVE FromLe(_, _)
FromLe(b, k) == IF k = 0 THEN 0 ELSE b[k] + 256 * FromLe(b, k - 1)
\* u64::from_le_bytes, most significant byte first in the recursion
from_le_bytes(b) ==
    LET rev == Vec([i \in 1..8 |-> b[9 - i]])
    IN FromLe(rev, 8)

(***************************************************************************)
(* shards_from_data (main.rs:308-332).                                     *)
(***************************************************************************)
\* main.rs:321-323: while shards.len() < num_shards { shards.push(Vec::new()) }
PushEmpty(ss, num_shards) ==
    ss \o Vec([i \in 1..(num_shards - Len(ss)) |-> <<>>])

\* PadAll with the bug of padding only the shards that were pushed empty
PadAll_EmptyOnly(ss, shard_len) ==
    Vec([i \in 1..Len(ss) |-> IF Len(ss[i]) = 0 THEN resize(ss[i], shard_len) ELSE ss[i]])

\* main.rs:327-329: every shard resized to shard_len with zeros
PadAll(ss, shard_len) == Vec([i \in 1..Len(ss) |-> resize(ss[i], shard_len)])

shards_from_data(data, num_shards) ==
    LET shard_len == div_ceil(Len(data), num_shards)
    IN IF shard_len = 0
       THEN Vec([i \in 1..num_shards |-> <<>>])
       ELSE PadAll(PushEmpty(chunks(data, shard_len), num_shards), shard_len)

(***************************************************************************)
(* protect, from the sharding on (main.rs:164-196).                        *)
(***************************************************************************)
\* main.rs:172-173: PARITY_SHARDS zeroed shards as long as the first data shard
EmptyParity(data_shards) ==
    LET shard_len == IF Len(data_shards) = 0 THEN 0 ELSE Len(data_shards[1])
    IN Vec([j \in 1..PARITY_SHARDS |-> resize(<<>>, shard_len)])

\* ContainerBytes with the bug of writing the parity shards first
ContainerBytes_ParityFirst(len, data_shards, par_shards) ==
    to_le_bytes(len) \o Flatten(par_shards \o data_shards)

\* main.rs:191-195: the length, then the data shards, then the parity shards
ContainerBytes(len, data_shards, par_shards) ==
    to_le_bytes(len) \o Flatten(data_shards \o par_shards)

(***************************************************************************)
(* recover, up to the assembled payload (main.rs:208-253).                 *)
(***************************************************************************)
\* main.rs:231-234: None pushed up to TOTAL_SHARDS slots, then cut to TOTAL_SHARDS
PadSlots(ss) ==
    SubSeq(ss \o Vec([i \in 1..(TOTAL_SHARDS - Len(ss)) |-> None]), 1, TOTAL_SHARDS)

\* main.rs:209-235 on a file of at least 8 bytes.  The outcome is "corrupt"
\* (the early return of line 220), "panic" (chunks(0) at line 225 asserts the
\* chunk size is not zero) or "none" with the slots.
ReadShards(file) ==
    LET len == from_le_bytes(SubSeq(file, 1, 8))
        shard_data_from_file == SubSeq(file, 9, Len(file))
        shard_len == div_ceil(Len(shard_data_from_file), TOTAL_SHARDS)
        pieces == chunks(shard_data_from_file, shard_len)
    IN IF shard_len = 0 /\ len > 0
       THEN [error |-> "corrupt", original_len |-> len, shards |-> <<>>]
       ELSE IF shard_len = 0
       THEN [error |-> "panic", original_len |-> len, shards |-> <<>>]
       ELSE [error |-> "none", original_len |-> len,
             shards |-> PadSlots(Vec([i \in 1..Len(pieces) |-> Some(pieces[i])]))]

\* main.rs:247-253: the present ones of the first DATA_SHARDS slots, one after
\* the other, cut to original_len
JoinData(slots, len) ==
    truncate(Flatten(Vec([i \in 1..DATA_SHARDS |->
                 IF slots[i].present THEN slots[i].bytes ELSE <<>>])), len)

AbsentOf(slots) == {i \in 1..Len(slots) : ~slots[i].present}

(***************************************************************************)
(* Inputs.                                                                 *)
(***************************************************************************)
\* seed 0 is a run of 'A' bytes; the other seeds change from byte to byte
Bytes(n, seed) == Vec([i \in 1..n |-> (65 + seed * 83 * (i - 1)) % 256])

\* the payload lengths of the specification's scenarios, beside 0..MaxLen
ScenarioLens == {95, 100}

Payloads == {Bytes(n, seed) : n \in (0..MaxLen) \cup ScenarioLens, seed \in 0..MaxSeed}

\* files that protect did not write: any header among these lengths, any body size
ForeignLens == {0, 1, DATA_SHARDS, 1000}
ForeignFiles == {to_le_bytes(h) \o Bytes(r, 1) : h \in ForeignLens, r \in 0..MaxBody}

(***************************************************************************)
(* The state machine.                                                      *)
(***************************************************************************)
Blank ==
    /\ err = "none"
    /\ rs_error = "none"
    /\ original_len = 0
    /\ shards = <<>>
    /\ reconstructed_data = <<>>
    /\ cut = 0
    /\ absent = {}

\* protect is about to shard a payload
InitProtect ==
    /\ pc = "protect"
    /\ origin = "protect"
    /\ encrypted_data \in Payloads
    /\ master_shards = <<>>
    /\ parity_shards = <<>>
    /\ out_file = <<>>
    /\ Blank

\* recover is given a file that protect did not write
InitForeign ==
    /\ pc = "stored"
    /\ origin = "foreign"
    /\ encrypted_data = <<>>
    /\ master_shards = <<>>
    /\ parity_shards = <<>>
    /\ out_file \in ForeignFiles
    /\ Blank

Init == InitProtect \/ InitForeign

\* main.rs:169
ShardsFromData ==
    /\ pc = "protect"
    /\ master_shards' = shards_from_data(encrypted_data, DATA_SHARDS)
    /\ pc' = "sharded"
    /\ UNCHANGED <<err, rs_error, encrypted_data, parity_shards, out_file, original_len,
                   shards, reconstructed_data, origin, cut, absent>>

\* main.rs:172-184
Encode ==
    /\ pc = "sharded"
    /\ LET r == rs_encode(master_shards \o EmptyParity(master_shards))
       IN /\ parity_shards' = SubSeq(r.shards, DATA_SHARDS + 1, TOTAL_SHARDS)
          /\ rs_error' = r.error
          /\ IF r.error = "none"
             THEN pc' = "encoded" /\ err' = "none"
             ELSE pc' = "failed" /\ err' = "encode"
    /\ UNCHANGED <<encrypted_data, master_shards, out_file, original_len, shards,
                   reconstructed_data, origin, cut, absent>>

\* main.rs:190-195
WriteContainer ==
    /\ pc = "encoded"
    /\ out_file' = ContainerBytes(Len(encrypted_data), master_shards, parity_shards)
    /\ pc' = "stored"
    /\ UNCHANGED <<err, rs_error, encrypted_data, master_shards, parity_shards,
                   original_len, shards, reconstructed_data, origin, cut, absent>>

\* The environment: the stored file loses its tail (cutting twice is cutting once).
TruncateFile ==
    /\ pc = "stored"
    /\ origin = "protect"
    /\ cut = 0
    /\ \E m \in 0..(Len(out_file) - 1) :
          /\ out_file' = SubSeq(out_file, 1, m)
          /\ cut' = Len(out_file) - m
    /\ UNCHANGED <<pc, err, rs_error, encrypted_data, master_shards, parity_shards,
                   original_len, shards, reconstructed_data, origin, absent>>

\* main.rs:209-235
ReadContainer ==
    /\ pc = "stored"
    /\ IF Len(out_file) < 8
       THEN /\ pc' = "failed"
            /\ err' = "header"
            /\ UNCHANGED <<original_len, shards, absent>>
       ELSE LET r == ReadShards(out_file)
            IN /\ original_len' = r.original_len
               /\ shards' = r.shards
               /\ absent' = AbsentOf(r.shards)
               /\ err' = r.error
               /\ pc' = IF r.error = "none" THEN "parsed" ELSE "failed"
    /\ UNCHANGED <<rs_error, encrypted_data, master_shards, parity_shards, out_file,
                   reconstructed_data, origin, cut>>

\* main.rs:238-243
Reconstruct ==
    /\ pc = "parsed"
    /\ LET r == rs_reconstruct(shards)
       IN /\ shards' = r.shards
          /\ rs_error' = r.error
          /\ IF r.error = "none"
             THEN pc' = "reconstructed" /\ err' = "none"
             ELSE pc' = "failed" /\ err' = "reconstruct"
    /\ UNCHANGED <<encrypted_data, master_shards, parity_shards, out_file, original_len,
                   reconstructed_data, origin, cut, absent>>

\* main.rs:246-253
Assemble ==
    /\ pc = "reconstructed"
    /\ reconstructed_data' = JoinData(shards, original_len)
    /\ pc' = "done"
    /\ UNCHANGED <<err, rs_error, encrypted_data, master_shards, parity_shards, out_file,
                   original_len, shards, origin, cut, absent>>

Next ==
    \/ ShardsFromData
    \/ Encode
    \/ WriteContainer
    \/ TruncateFile
    \/ ReadContainer
    \/ Reconstruct
    \/ Assemble

Spec == Init /\ [][Next]_vars

(***************************************************************************)
(* Reconstruction and assembly on their own: the slots of a container that *)
(* protect wrote, with a chosen set of positions marked absent, enter the  *)
(* reconstruction step (SpecErasure) or the assembly step (SpecAssemble).  *)
(***************************************************************************)
ErasurePayloads == {Bytes(ErasureLen, seed) : seed \in 0..MaxSeed}

AbsentChoices == {A \in SUBSET (1..TOTAL_SHARDS) : Cardinality(A) <= PARITY_SHARDS + 1}

Erase(slots, A) == Vec([i \in 1..Len(slots) |-> IF i \in A THEN None ELSE slots[i]])

Protected ==
    /\ origin = "protect"
    /\ encrypted_data \in ErasurePayloads
    /\ master_shards = shards_from_data(encrypted_data, DATA_SHARDS)
    /\ parity_shards = SubSeq(rs_encode(master_shards \o EmptyParity(master_shards)).shards,
                              DATA_SHARDS + 1, TOTAL_SHARDS)
    /\ out_file = ContainerBytes(Len(encrypted_data), master_shards, parity_shards)
    /\ original_len = ReadShards(out_file).original_len
    /\ absent \in AbsentChoices
    /\ shards = Erase(ReadShards(out_file).shards, absent)
    /\ err = "none"
    /\ rs_error = "none"
    /\ reconstructed_data = <<>>
    /\ cut = 0

InitErasure == pc = "parsed" /\ Protected

NextErasure == Reconstruct \/ Assemble

SpecErasure == InitErasure /\ [][NextErasure]_vars

InitAssemble == pc = "reconstructed" /\ Protected

NextAssemble == Assemble

SpecAssemble == InitAssemble /\ [][NextAssemble]_vars

(***************************************************************************)
(* Vocabulary of the properties.                                           *)
(***************************************************************************)
\* the shard length the payload calls for
PayloadShardLen == div_ceil(Len(encrypted_data), DATA_SHARDS)

\* the shards protect produced, data then parity
WrittenShards == master_shards \o parity_shards

\* protect has written out_file (and the file may have been cut since)
Written ==
    /\ origin = "protect"
    /\ pc \in {"stored", "parsed", "reconstructed", "done", "failed"}
    /\ err # "encode"

\* the read step of recover is over
ReadOver ==
    \/ pc \in {"parsed", "reconstructed", "done"}
    \/ pc = "failed" /\ err \in {"corrupt", "panic", "reconstruct"}

\* the whole shards still in the file of a written container
WholeShardsLeft ==
    IF Len(out_file) < 8 THEN 0 ELSE (Len(out_file) - 8) \div PayloadShardLen

Zeros(n) == Vec([i \in 1..n |-> 0])

C2_ErasureTolerance ==
    Cardinality(absent) <= PARITY_SHARDS =>
        /\ pc # "failed"
        /\ pc \in {"reconstructed", "done"} =>
              /\ Len(shards) = TOTAL_SHARDS
              /\ \A i \in 1..TOTAL_SHARDS : shards[i] = Some(WrittenShards[i])
        /\ pc = "done" => reconstructed_data = encrypted_data

C2_Witness ==
    /\ pc = "done"
    /\ Cardinality(absent) = PARITY_SHARDS
    /\ absent \cap (1..DATA_SHARDS) # {}
    /\ absent \cap ((DATA_SHARDS + 1)..TOTAL_SHARDS) # {}
    /\ reconstructed_data = encrypted_data
    /\ \E i \in 1..Len(encrypted_data) : encrypted_data[i] # encrypted_data[1]

(***************************************************************************)
(* C3: truncated-file tolerance.  A written container that lost its last k *)
(* whole shards, 1 <= k <= PARITY_SHARDS, is read as k absent slots at the  *)
(* tail and the other slots present with their original bytes, and recover *)
(* returns the payload.                                                    *)
(***************************************************************************)
C3_TruncatedTail ==
    \A k \in 1..PARITY_SHARDS :
        (Written /\ cut = k * PayloadShardLen) =>
            /\ pc # "failed"
            /\ pc = "parsed" =>
                  /\ absent = (TOTAL_SHARDS - k + 1)..TOTAL_SHARDS
                  /\ \A i \in 1..(TOTAL_SHARDS - k) : shards[i] = Some(WrittenShards[i])
            /\ pc = "done" => reconstructed_data = encrypted_data

(***************************************************************************)
(* C4: tolerance boundary on truncation.  A written container of a         *)
(* non-empty payload cut so that fewer than DATA_SHARDS whole shards are    *)
(* left (more than PARITY_SHARDS are gone) never gets through the          *)
(* reconstruction step: recover fails.                                     *)
(***************************************************************************)
C4_TruncationBoundary ==
    (Written /\ cut > 0 /\ Len(encrypted_data) > 0 /\ WholeShardsLeft < DATA_SHARDS) =>
        pc \notin {"reconstructed", "done"}

(***************************************************************************)
(* C5: uniform shard length.  The split yields exactly DATA_SHARDS shards  *)
(* of length ceil(n / DATA_SHARDS), which read in order are the payload    *)
(* followed by zero bytes only; the parity shards have that length too.    *)
(***************************************************************************)
C5_UniformShardLength ==
    (origin = "protect" /\ pc # "protect") =>
        /\ Len(master_shards) = DATA_SHARDS
        /\ \A i \in 1..DATA_SHARDS : Len(master_shards[i]) = PayloadShardLen
        /\ Len(encrypted_data) = 0 => PayloadShardLen = 0
        /\ Flatten(master_shards)
             = encrypted_data \o Zeros(DATA_SHARDS * PayloadShardLen - Len(encrypted_data))
        /\ pc # "sharded" =>
              /\ Len(parity_shards) = PARITY_SHARDS
              /\ \A j \in 1..PARITY_SHARDS : Len(parity_shards[j]) = PayloadShardLen

C5_Witness ==
    /\ origin = "protect"
    /\ pc = "encoded"
    /\ Len(encrypted_data) = DATA_SHARDS + 1
    /\ master_shards[DATA_SHARDS] = <<0, 0>>
    /\ Len(parity_shards[PARITY_SHARDS]) = 2

(***************************************************************************)
(* C6: container layout.  The file protect writes is the payload length n  *)
(* in 8 little-endian bytes, then the data shards, then the parity shards, *)
(* in index order with nothing between: 8 + TOTAL_SHARDS * ceil(n /        *)
(* DATA_SHARDS) bytes, 148 for n = 100, and the stored length is n.        *)
(***************************************************************************)
C6_ContainerLayout ==
    (origin = "protect" /\ pc = "stored" /\ cut = 0) =>
        LET n == Len(encrypted_data)
        IN /\ Len(out_file) = 8 + TOTAL_SHARDS * PayloadShardLen
           /\ n = 100 => Len(out_file) = 148
           /\ out_file[1] = n % 256
           /\ out_file[2] = n \div 256
           /\ \A i \in 3..8 : out_file[i] = 0
           /\ \A i \in 1..TOTAL_SHARDS : \A b \in 1..PayloadShardLen :
                 out_file[8 + (i - 1) * PayloadShardLen + b] = WrittenShards[i][b]
           /\ from_le_bytes(SubSeq(out_file, 1, 8)) = n

C6_Witness ==
    /\ origin = "protect"
    /\ pc = "stored"
    /\ cut = 0
    /\ Len(encrypted_data) = 100
    /\ Len(out_file) = 148
    /\ out_file[1] = 100

(***************************************************************************)
(* C7: length fidelity.  Whenever recover is past the reconstruction and   *)
(* has assembled the payload, the payload is exactly as long as the header *)
(* of the container says; stated here for the containers protect wrote,    *)
(* cut or not.                                                             *)
(***************************************************************************)
C7_LengthFidelity ==
    (Written /\ pc = "done") => Len(reconstructed_data) = original_len

(***************************************************************************)
(* C8: the read step is total on files of at least 8 bytes.  With R bytes  *)
(* after the header it fails as corrupt exactly when R = 0 and the header  *)
(* length is positive; otherwise it ends normally with TOTAL_SHARDS slots. *)
(***************************************************************************)
C8_ReadTotal ==
    (Len(out_file) >= 8 /\ ReadOver) =>
        IF Len(out_file) = 8 /\ from_le_bytes(SubSeq(out_file, 1, 8)) > 0
        THEN pc = "failed" /\ err = "corrupt"
        ELSE /\ err \notin {"corrupt", "panic"}
             /\ Len(shards) = TOTAL_SHARDS

(***************************************************************************)
(* C9: equal lengths on the decode side.  With R > 0 bytes after the       *)
(* header, every present slot the read step produces has length            *)
(* ceil(R / TOTAL_SHARDS); stated here for the containers protect wrote,   *)
(* cut or not.                                                             *)
(***************************************************************************)
C9_PresentSameLength ==
    (Written /\ pc = "parsed" /\ Len(out_file) > 8) =>
        \A i \in 1..Len(shards) :
            shards[i].present =>
                Len(shards[i].bytes) = div_ceil(Len(out_file) - 8, TOTAL_SHARDS)

====
